---- MODULE Spec2Model ----
(***************************************************************************)
(* Model of the Markowitz optimizers of fx-opti:                           *)
(*   src/markowitz_optimizer.py  (3-asset Sharpe optimizers)               *)
(*   src/portfolio_optimizer.py  (2-asset minimum-variance FX basket)      *)
(*                                                                         *)
(* Numbers.  Real arithmetic is exact: a finite float is modelled by the   *)
(* rational <<n, d>> (d > 0, lowest terms) it stands for.  The non-finite  *)
(* floats the code can produce are the values NaN and NegInf.  mu, rf and  *)
(* the entries of cov are counted in units of 1e-10, so that the absolute  *)
(* tolerance of np.allclose is the rational 1; weights are pure numbers.   *)
(* sqrt(x) of x >= 0 is the value [root |-> x], "the non-negative real     *)
(* whose square is x"; sqrt of a negative number is NaN, as np.sqrt gives. *)
(* A quotient e / sqrt(v) (v > 0) is the value [ssq |-> sgn(e)*e*e/v],     *)
(* "the real s with s*|s| = ssq"; s |-> s*|s| is strictly increasing, so   *)
(* comparing two such values is comparing their ssq.                       *)
(***************************************************************************)
EXTENDS Integers, Sequences, FiniteSets, TLC

VARIABLES pc, mu, cov, rf, grid_size, weights, fx,
          best, grid, i1, w2_values, i2, seen, result

vars == <<pc, mu, cov, rf, grid_size, weights, fx,
          best, grid, i1, w2_values, i2, seen, result>>

----------------------------------------------------------------------------
(* Bounds of the model.                                                    *)
MaxGrid == 4
MaxMu == 1
MaxVar == 1
MaxVol == 3
CorrDen == 2

----------------------------------------------------------------------------
(* Exact rational arithmetic.                                              *)
Abs(x) == IF x < 0 THEN -x ELSE x

Sgn(x) == IF x < 0 THEN -1 ELSE IF x = 0 THEN 0 ELSE 1

RECURSIVE GCD(_, _)
GCD(a, b) == IF b = 0 THEN a ELSE GCD(b, a % b)

Norm(n, d) ==
    LET g == GCD(Abs(n), Abs(d))
        s == IF d < 0 THEN -1 ELSE 1
    IN  <<(s * n) \div g, (s * d) \div g>>

R(k) == <<k, 1>>
Zero == R(0)
One == R(1)
RAdd(a, b) ==
    LET g == GCD(a[2], b[2])
    IN  Norm(a[1] * (b[2] \div g) + b[1] * (a[2] \div g), a[2] * (b[2] \div g))
RNeg(a) == <<-a[1], a[2]>>
RSub(a, b) == RAdd(a, RNeg(b))
RMul(a, b) ==
    LET g1 == GCD(Abs(a[1]), b[2])
        g2 == GCD(Abs(b[1]), a[2])
    IN  Norm((a[1] \div g1) * (b[1] \div g2), (a[2] \div g2) * (b[2] \div g1))
RInv(a) == IF a[1] < 0 THEN <<-a[2], -a[1]>> ELSE <<a[2], a[1]>>
RDiv(a, b) == RMul(a, RInv(b))
RLt(a, b) ==
    LET g == GCD(a[2], b[2])
    IN  a[1] * (b[2] \div g) < b[1] * (a[2] \div g)
RLe(a, b) ==
    LET g == GCD(a[2], b[2])
    IN  a[1] * (b[2] \div g) <= b[1] * (a[2] \div g)
RAbs(a) == <<Abs(a[1]), a[2]>>
RMax(a, b) == IF RLt(a, b) THEN b ELSE a
RSgn(a) == Sgn(a[1])

(* Non-finite floats.                                                      *)
NaN == [k |-> "nan"]
NegInf == [k |-> "ninf"]

----------------------------------------------------------------------------
(* numpy arrays: a shape and the row-major data.                           *)
Vec(s) == [shape |-> <<Len(s)>>, data |-> s]
Mat3(s) == [shape |-> <<3, 3>>, data |-> s]
At(m, r, c) == m.data[3 * (r - 1) + c]

(* np.allclose(a, b, atol=1e-10) on one pair of entries: numpy's test is   *)
(* |a - b| <= atol + rtol * |b| with the default rtol = 1e-5.              *)
ATOL == One
RTolInv == 100000
IsClose(a, b) ==
    RLe(RMul(R(RTolInv), RAbs(RSub(a, b))),
        RAdd(RMul(R(RTolInv), ATOL), RAbs(b)))

AllCloseT(m) ==
    \A r \in 1..3 : \A c \in 1..3 : IsClose(At(m, r, c), At(m, c, r))

(* _validate_inputs with the shape of cov checked before that of mu.       *)
validate_inputs_cov_first(m, c) ==
    IF c.shape # <<3, 3>> THEN [status |-> "error", error |-> "cov_shape"]
    ELSE IF m.shape # <<3>> THEN [status |-> "error", error |-> "mu_shape"]
    ELSE IF ~AllCloseT(c) THEN [status |-> "error", error |-> "not_symmetric"]
    ELSE [status |-> "ok", mu |-> m, cov |-> c]

(* _validate_inputs: the error raised, or "ok" and the arrays returned.    *)
validate_inputs(m, c) ==
    IF m.shape # <<3>> THEN [status |-> "error", error |-> "mu_shape"]
    ELSE IF c.shape # <<3, 3>> THEN [status |-> "error", error |-> "cov_shape"]
    ELSE IF ~AllCloseT(c) THEN [status |-> "error", error |-> "not_symmetric"]
    ELSE [status |-> "ok", mu |-> m, cov |-> c]

----------------------------------------------------------------------------
(* portfolio_stats                                                         *)
Dot(w, m) ==
    RAdd(RAdd(RMul(w[1], m.data[1]), RMul(w[2], m.data[2])),
         RMul(w[3], m.data[3]))

(* w @ cov is the row vector sum_r w[r] * cov[r, c].                       *)
VecMat(w, c) ==
    [j \in 1..3 |->
        RAdd(RAdd(RMul(w[1], At(c, 1, j)), RMul(w[2], At(c, 2, j))),
             RMul(w[3], At(c, 3, j)))]

Quad(w, c) ==
    LET wc == VecMat(w, c)
    IN  RAdd(RAdd(RMul(wc[1], w[1]), RMul(wc[2], w[2])), RMul(wc[3], w[3]))

(* np.sqrt: NaN below zero.                                                *)
Sqrt(x) == IF RLt(x, Zero) THEN NaN ELSE [k |-> "root", sq |-> x]

(* vol <= 0: false when vol is NaN.                                        *)
VolLeZero(v) == v.k = "root" /\ RLe(v.sq, Zero)

(* e / vol for a vol that is NaN or positive.                              *)
DivByVol(e, v) ==
    IF v.k = "nan" THEN NaN
    ELSE [k |-> "real", ssq |-> RMul(R(RSgn(e)), RDiv(RMul(e, e), v.sq))]

(* a > b on floats: false when either side is NaN.                         *)
FloatGT(a, b) ==
    IF a.k = "nan" \/ b.k = "nan" THEN FALSE
    ELSE IF a.k = "ninf" THEN FALSE
    ELSE IF b.k = "ninf" THEN TRUE
    ELSE RLt(b.ssq, a.ssq)

MarkowitzResult(w, er, v, s) ==
    [status |-> "ok", weights |-> w, expected_return |-> er,
     volatility |-> v, sharpe_ratio |-> s]

Raise(e) == [status |-> "error", error |-> e]

NoResult == [status |-> "none"]

portfolio_stats(w, m, c, r) ==
    LET exp_ret == Dot(w, m)
        vol == Sqrt(Quad(w, c))
        sharpe == IF VolLeZero(vol) THEN NegInf
                  ELSE DivByVol(RSub(exp_ret, r), vol)
    IN  MarkowitzResult(w, exp_ret, vol, sharpe)

----------------------------------------------------------------------------
(* optimize_sharpe_unconstrained                                           *)
Det3(a) ==
    LET t1 == RMul(a[1], RSub(RMul(a[5], a[9]), RMul(a[6], a[8])))
        t2 == RMul(a[2], RSub(RMul(a[4], a[9]), RMul(a[6], a[7])))
        t3 == RMul(a[3], RSub(RMul(a[4], a[8]), RMul(a[5], a[7])))
    IN  RAdd(RSub(t1, t2), t3)

(* The matrix data a with column j replaced by the vector b.               *)
ReplaceCol(a, j, b) ==
    [n \in 1..9 |-> IF ((n - 1) % 3) + 1 = j THEN b[((n - 1) \div 3) + 1] ELSE a[n]]

(* np.linalg.solve(cov, excess): LinAlgError on a singular matrix, else    *)
(* the unique solution (Cramer's rule gives it exactly).                   *)
Solve(c, b) ==
    LET d == Det3(c.data)
    IN  IF d = Zero THEN [status |-> "error", error |-> "LinAlgError"]
        ELSE [status |-> "ok",
              x |-> [j \in 1..3 |-> RDiv(Det3(ReplaceCol(c.data, j, b)), d)]]

(* abs(x) < 1e-14 for the rational x = n/d:  |n| * 10^14 < d, that is      *)
(* |n| <= (d - 1) div 10^14, the division taken in two steps of 10^7.      *)
EpsInvRoot == 10000000

(* x < 1e-14, the absolute value forgotten.                                *)
BelowEps(x) == x[1] <= ((x[2] - 1) \div EpsInvRoot) \div EpsInvRoot

AbsBelowEps(x) == Abs(x[1]) <= ((x[2] - 1) \div EpsInvRoot) \div EpsInvRoot

optimize_sharpe_unconstrained(m0, c0, r) ==
    LET v == validate_inputs(m0, c0)
    IN  IF v.status # "ok" THEN Raise(v.error)
        ELSE
        LET excess == [j \in 1..3 |-> RSub(v.mu.data[j], r)]
            sol == Solve(v.cov, excess)
        IN  IF sol.status # "ok" THEN Raise("singular")
            ELSE
            LET raw == sol.x
                denom == RAdd(RAdd(raw[1], raw[2]), raw[3])
            IN  IF AbsBelowEps(denom) THEN Raise("degenerate")
                ELSE portfolio_stats([j \in 1..3 |-> RDiv(raw[j], denom)],
                                     v.mu, v.cov, r)

----------------------------------------------------------------------------
(* optimize_sharpe_long_only                                               *)

(* np.linspace(start, stop, n) for n >= 2.                                 *)
linspace(start, stop, n) ==
    LET step == RDiv(RSub(stop, start), R(n - 1))
    IN  [j \in 1..n |-> RAdd(start, RMul(R(j - 1), step))]

(* Python's round(x): to the nearest integer, a tie to the even one.       *)
Floor(x) == x[1] \div x[2]
PyRound(x) ==
    LET f == Floor(x)
        twice == RMul(R(2), RSub(x, R(f)))
    IN  IF RLt(twice, One) THEN f
        ELSE IF RLt(One, twice) THEN f + 1
        ELSE IF f % 2 = 0 THEN f ELSE f + 1

Max(a, b) == IF a < b THEN b ELSE a

(* The sub-grid one point short.                                           *)
N2_no_plus_one(max_w2, gs) == Max(2, PyRound(RMul(max_w2, R(gs - 1))))

(* n2 = max(2, int(round(max_w2 * (grid_size - 1))) + 1)                   *)
N2(max_w2, gs) == Max(2, PyRound(RMul(max_w2, R(gs - 1))) + 1)

(* The sub-grid over [0, 1] whatever w1 is.                                *)
W2Values_full_range(w1, gs) ==
    LET max_w2 == RSub(One, w1)
    IN  linspace(Zero, One, N2(max_w2, gs))

W2Values(w1, gs) ==
    LET max_w2 == RSub(One, w1)
    IN  linspace(Zero, max_w2, N2(max_w2, gs))

Candidate(w1, w2) == <<w1, w2, RSub(RSub(One, w1), w2)>>

(* The initial record scored like any candidate.                           *)
InitialBest_scored(m, c) == portfolio_stats(<<One, Zero, Zero>>, m, c, Zero)

InitialBest(m, c) ==
    MarkowitzResult(<<One, Zero, Zero>>, m.data[1], Sqrt(At(c, 1, 1)), NegInf)

(* The comparison with >= for >.                                           *)
Better_or_equal(stats, b) ==
    LET x == stats.sharpe_ratio
        y == b.sharpe_ratio
    IN  IF x.k = "nan" \/ y.k = "nan" THEN FALSE
        ELSE IF y.k = "ninf" THEN TRUE
        ELSE IF x.k = "ninf" THEN FALSE
        ELSE RLe(y.ssq, x.ssq)

(* if stats.sharpe_ratio > best.sharpe_ratio: best = stats                 *)
Better(stats, b) == FloatGT(stats.sharpe_ratio, b.sharpe_ratio)

Keep(stats, b) == IF Better(stats, b) THEN stats ELSE b

----------------------------------------------------------------------------
(* portfolio_optimizer.py: the two-currency minimum-variance basket.       *)
Fin(x) == [k |-> "fin", v |-> x]
NonFinite == [k |-> "nonfinite"]

(* a / b on numpy floats: no exception, inf or nan when b is 0.            *)
FDiv(a, b) == IF b = Zero THEN NonFinite ELSE Fin(RDiv(a, b))

(* The covariance with the correlation not negated.                        *)
Cov2_same_sign(vol_eurusd, vol_usdjpy, corr_eurusd_usdjpy) ==
    LET off == RMul(RMul(corr_eurusd_usdjpy, vol_eurusd), vol_usdjpy)
    IN  <<RMul(vol_eurusd, vol_eurusd), off, off, RMul(vol_usdjpy, vol_usdjpy)>>

Cov2(vol_eurusd, vol_usdjpy, corr_eurusd_usdjpy) ==
    LET sigma_eur == vol_eurusd
        sigma_jpy == vol_usdjpy
        corr_eur_jpy == RNeg(corr_eurusd_usdjpy)
        off == RMul(RMul(corr_eur_jpy, sigma_eur), sigma_jpy)
    IN  <<RMul(sigma_eur, sigma_eur), off, off, RMul(sigma_jpy, sigma_jpy)>>

Det2(m) == RSub(RMul(m[1], m[4]), RMul(m[2], m[3]))

(* An inverse that answers a singular matrix with zeros instead of failing.*)
Inv2_unchecked(m) ==
    LET d == Det2(m)
    IN  IF d = Zero THEN [status |-> "ok", inv |-> <<Zero, Zero, Zero, Zero>>]
        ELSE [status |-> "ok",
              inv |-> <<RDiv(m[4], d), RDiv(RNeg(m[2]), d),
                        RDiv(RNeg(m[3]), d), RDiv(m[1], d)>>]

(* np.linalg.inv of a 2x2 matrix: LinAlgError on a singular matrix.        *)
Inv2(m) ==
    LET d == Det2(m)
    IN  IF d = Zero THEN [status |-> "error", error |-> "LinAlgError"]
        ELSE [status |-> "ok",
              inv |-> <<RDiv(m[4], d), RDiv(RNeg(m[2]), d),
                        RDiv(RNeg(m[3]), d), RDiv(m[1], d)>>]

min_variance_weights(vol_eurusd, vol_usdjpy, corr_eurusd_usdjpy) ==
    LET c == Cov2(vol_eurusd, vol_usdjpy, corr_eurusd_usdjpy)
        iv == Inv2(c)
    IN  IF iv.status # "ok" THEN Raise("LinAlgError")
        ELSE
        LET inv_cov == iv.inv
            num == <<RAdd(inv_cov[1], inv_cov[2]), RAdd(inv_cov[3], inv_cov[4])>>
            den == RAdd(RAdd(inv_cov[1], inv_cov[3]), RAdd(inv_cov[2], inv_cov[4]))
        IN  [status |-> "ok",
             weight_eur |-> FDiv(num[1], den), weight_jpy |-> FDiv(num[2], den)]

(* math.sqrt(max(var, 0.0)); a non-finite weight gives a non-finite var.   *)
portfolio_volatility(weight_eur, weight_jpy, vol_eurusd, vol_usdjpy, corr) ==
    IF weight_eur.k # "fin" \/ weight_jpy.k # "fin" THEN NonFinite
    ELSE
    LET c == Cov2(vol_eurusd, vol_usdjpy, corr)
        a == weight_eur.v
        b == weight_jpy.v
        var == RAdd(RMul(RAdd(RMul(a, c[1]), RMul(b, c[3])), a),
                    RMul(RAdd(RMul(a, c[2]), RMul(b, c[4])), b))
    IN  [k |-> "root", sq |-> RMax(var, Zero)]

(* main, after the three inputs are read.                                  *)
main(vol_eurusd, vol_usdjpy, corr) ==
    IF vol_eurusd = Zero /\ vol_usdjpy = Zero THEN [status |-> "printed", msg |-> "any"]
    ELSE IF vol_eurusd = Zero THEN [status |-> "printed", msg |-> "all_eur"]
    ELSE IF vol_usdjpy = Zero THEN [status |-> "printed", msg |-> "all_jpy"]
    ELSE
    LET w == min_variance_weights(vol_eurusd, vol_usdjpy, corr)
    IN  IF w.status # "ok" THEN w
        ELSE [status |-> "printed", msg |-> "weights",
              weight_eur |-> w.weight_eur, weight_jpy |-> w.weight_jpy,
              port_vol |-> portfolio_volatility(w.weight_eur, w.weight_jpy,
                                                vol_eurusd, vol_usdjpy, corr)]

----------------------------------------------------------------------------
(* Inputs.                                                                 *)
MuVals == 0..MaxMu
DiagVals == -1..MaxVar
OffVals == {-1, 0, 1}
RfVals == {Zero, <<1, 2>>}

Vec3s(S) == {<<R(a), R(b), R(c)>> : a \in S, b \in S, c \in S}

MuInputs == {Vec(v) : v \in Vec3s(MuVals)}

(* mu of a wrong shape: too short, too long, two-dimensional.              *)
BadMu ==
    {Vec(<<One, Zero>>), Vec(<<Zero, One, Zero, One>>),
     [shape |-> <<1, 3>>, data |-> <<Zero, One, Zero>>]}

(* A 3x3 matrix from its diagonal d, its upper triangle u and the amounts  *)
(* e by which the lower triangle differs from the upper one.               *)
CovOf(d, u, e) ==
    Mat3(<<R(d[1]), R(u[1]), R(u[2]),
           R(u[1] + e[1]), R(d[2]), R(u[3]),
           R(u[2] + e[2]), R(u[3] + e[3]), R(d[3])>>)

Triples(S) == S \X S \X S

SymCovs == {CovOf(d, u, <<0, 0, 0>>) : d \in Triples(DiagVals), u \in Triples(OffVals)}

(* cov of a wrong shape.                                                   *)
BadCov ==
    {[shape |-> <<2, 2>>, data |-> <<One, Zero, Zero, One>>],
     [shape |-> <<3, 2>>, data |-> <<One, Zero, Zero, One, Zero, Zero>>],
     [shape |-> <<9>>, data |-> <<One, Zero, Zero, Zero, One, Zero, Zero, Zero, One>>]}

(* Matrices that differ from their transpose by 1e-10 (accepted) or by     *)
(* 2e-10 (rejected).                                                       *)
SkewCovs ==
    {CovOf(<<1, 1, 1>>, u, e) : u \in {<<0, 0, 0>>, <<1, 0, -1>>},
                                e \in {<<1, 0, 0>>, <<0, -1, 1>>, <<2, 0, 0>>, <<0, 0, -2>>}}

Idle ==
    /\ best = NoResult
    /\ grid = <<>>
    /\ i1 = 0
    /\ w2_values = <<>>
    /\ i2 = 0
    /\ seen = <<>>
    /\ result = NoResult

NoFx == [vol_eurusd |-> Zero, vol_usdjpy |-> Zero, corr |-> Zero]
NoWeights == <<Zero, Zero, Zero>>

----------------------------------------------------------------------------
(* _validate_inputs called on its own.                                     *)
BigVal == 100000
ValOff == {0, BigVal}
ValDeltas == -2..2
ValCovs ==
    {CovOf(<<1, 1, 1>>, u, e) : u \in Triples(ValOff), e \in Triples(ValDeltas)}

InitValidate ==
    /\ pc = "validate"
    /\ mu \in MuInputs \cup BadMu
    /\ cov \in ValCovs \cup BadCov
    /\ rf = Zero /\ grid_size = 0 /\ weights = NoWeights /\ fx = NoFx
    /\ Idle

Validate ==
    /\ pc = "validate"
    /\ result' = validate_inputs(mu, cov)
    /\ pc' = "done"
    /\ UNCHANGED <<mu, cov, rf, grid_size, weights, fx, best, grid, i1,
                   w2_values, i2, seen>>

SpecValidate == InitValidate /\ [][Validate]_vars

----------------------------------------------------------------------------
(* portfolio_stats called on its own: any real weight vector.              *)
StatsWeights ==
    {<<One, Zero, Zero>>, <<Zero, Zero, One>>, <<Zero, Zero, Zero>>,
     <<One, One, Zero>>, <<One, R(-1), Zero>>, <<Zero, One, One>>,
     <<<<1, 2>>, <<1, 2>>, Zero>>, <<<<1, 3>>, <<1, 3>>, <<1, 3>>>>,
     <<R(2), R(-1), Zero>>, <<One, R(-1), One>>}

InitStats ==
    /\ pc = "stats"
    /\ mu \in MuInputs
    /\ cov \in SymCovs \cup SkewCovs
    /\ rf \in RfVals
    /\ weights \in StatsWeights
    /\ grid_size = 0 /\ fx = NoFx
    /\ Idle

Stats ==
    /\ pc = "stats"
    /\ result' = portfolio_stats(weights, mu, cov, rf)
    /\ pc' = "done"
    /\ UNCHANGED <<mu, cov, rf, grid_size, weights, fx, best, grid, i1,
                   w2_values, i2, seen>>

SpecStats == InitStats /\ [][Stats]_vars

----------------------------------------------------------------------------
(* optimize_sharpe_unconstrained                                           *)
SolveOff ==
    {<<a, 0, c>> : a \in OffVals, c \in OffVals}
        \cup {<<1, 1, 1>>, <<-1, -1, -1>>, <<1, -1, 1>>, <<0, 1, 0>>}
SolveCovs == {CovOf(d, u, <<0, 0, 0>>) : d \in Triples(DiagVals), u \in SolveOff}

InitUnconstrained ==
    /\ pc = "unconstrained"
    /\ mu \in MuInputs \cup BadMu
    /\ cov \in SolveCovs \cup SkewCovs \cup BadCov
    /\ rf \in RfVals
    /\ grid_size = 0 /\ weights = NoWeights /\ fx = NoFx
    /\ Idle

Unconstrained ==
    /\ pc = "unconstrained"
    /\ result' = optimize_sharpe_unconstrained(mu, cov, rf)
    /\ pc' = "done"
    /\ UNCHANGED <<mu, cov, rf, grid_size, weights, fx, best, grid, i1,
                   w2_values, i2, seen>>

SpecUnconstrained == InitUnconstrained /\ [][Unconstrained]_vars

----------------------------------------------------------------------------
(* optimize_sharpe_long_only, one step per loop iteration.                 *)
GridOff == {<<0, 0, 0>>, <<1, 1, 1>>, <<-1, 0, 0>>, <<0, 1, -1>>, <<-1, -1, -1>>}
GridCovs == {CovOf(d, u, <<0, 0, 0>>) : d \in Triples(DiagVals), u \in GridOff}
GridSkew == {CovOf(<<1, 1, 1>>, <<0, 0, 0>>, e) : e \in {<<1, 0, 0>>, <<0, 0, 2>>}}

GridMu == {Vec(v) : v \in Vec3s({0, 1})}

InitLongOnly ==
    /\ pc = "long_only"
    /\ mu \in GridMu \cup BadMu
    /\ cov \in GridCovs \cup GridSkew \cup BadCov
    /\ rf \in RfVals
    /\ grid_size \in 2..MaxGrid
    /\ weights = NoWeights /\ fx = NoFx
    /\ Idle

(* Lines 82-94: validation, the resolution check, the initial best record  *)
(* and the w1 grid.                                                        *)
LongOnlyEnter ==
    /\ pc = "long_only"
    /\ LET v == validate_inputs(mu, cov)
       IN  IF v.status # "ok"
           THEN /\ result' = Raise(v.error)
                /\ pc' = "done"
                /\ UNCHANGED <<best, grid>>
           ELSE IF grid_size < 3
           THEN /\ result' = Raise("grid_size")
                /\ pc' = "done"
                /\ UNCHANGED <<best, grid>>
           ELSE /\ best' = InitialBest(v.mu, v.cov)
                /\ grid' = linspace(Zero, One, grid_size)
                /\ pc' = "outer"
                /\ UNCHANGED result
    /\ UNCHANGED <<mu, cov, rf, grid_size, weights, fx, i1, w2_values, i2, seen>>

(* Lines 95-99: the next w1 and its w2 sub-grid.                           *)
LongOnlyNextW1 ==
    /\ pc = "outer"
    /\ i1 < Len(grid)
    /\ i1' = i1 + 1
    /\ w2_values' = W2Values(grid[i1 + 1], grid_size)
    /\ i2' = 0
    /\ pc' = "inner"
    /\ UNCHANGED <<mu, cov, rf, grid_size, weights, fx, best, grid, seen, result>>

(* Lines 101-106: one candidate is scored and compared with best.          *)
LongOnlyCandidate ==
    /\ pc = "inner"
    /\ i2 < Len(w2_values)
    /\ LET stats == portfolio_stats(Candidate(grid[i1], w2_values[i2 + 1]),
                                    mu, cov, rf)
       IN  /\ best' = Keep(stats, best)
           /\ seen' = Append(seen, stats)
    /\ i2' = i2 + 1
    /\ pc' = IF i2 + 1 = Len(w2_values) THEN "outer" ELSE "inner"
    /\ UNCHANGED <<mu, cov, rf, grid_size, weights, fx, grid, i1, w2_values, result>>

(* Line 108.                                                               *)
LongOnlyReturn ==
    /\ pc = "outer"
    /\ i1 = Len(grid)
    /\ result' = best
    /\ pc' = "done"
    /\ UNCHANGED <<mu, cov, rf, grid_size, weights, fx, best, grid, i1,
                   w2_values, i2, seen>>

NextLongOnly ==
    LongOnlyEnter \/ LongOnlyNextW1 \/ LongOnlyCandidate \/ LongOnlyReturn

SpecLongOnly == InitLongOnly /\ [][NextLongOnly]_vars

----------------------------------------------------------------------------
(* The two-currency basket: main, and min_variance_weights followed by     *)
(* portfolio_volatility as main calls them.                                *)
VolDen == 10
Vols == {Norm(n, VolDen) : n \in 0..MaxVol}
Corrs == {Norm(n, CorrDen) : n \in (-CorrDen)..CorrDen}

InitHedge ==
    /\ pc \in {"main", "min_variance_weights"}
    /\ fx \in [vol_eurusd : Vols, vol_usdjpy : Vols, corr : Corrs]
    /\ mu = Vec(NoWeights) /\ cov = Vec(NoWeights) /\ rf = Zero
    /\ grid_size = 0 /\ weights = NoWeights
    /\ Idle

Main ==
    /\ pc = "main"
    /\ result' = main(fx.vol_eurusd, fx.vol_usdjpy, fx.corr)
    /\ pc' = "done"
    /\ UNCHANGED <<mu, cov, rf, grid_size, weights, fx, best, grid, i1,
                   w2_values, i2, seen>>

MinVarianceWeights ==
    /\ pc = "min_variance_weights"
    /\ result' = min_variance_weights(fx.vol_eurusd, fx.vol_usdjpy, fx.corr)
    /\ pc' = IF result'.status = "ok" THEN "portfolio_volatility" ELSE "done"
    /\ UNCHANGED <<mu, cov, rf, grid_size, weights, fx, best, grid, i1,
                   w2_values, i2, seen>>

PortfolioVolatility ==
    /\ pc = "portfolio_volatility"
    /\ result' = [status |-> "ok", weight_eur |-> result.weight_eur,
                   weight_jpy |-> result.weight_jpy,
                   port_vol |-> portfolio_volatility(result.weight_eur,
                                    result.weight_jpy, fx.vol_eurusd,
                                    fx.vol_usdjpy, fx.corr)]
    /\ pc' = "done"
    /\ UNCHANGED <<mu, cov, rf, grid_size, weights, fx, best, grid, i1,
                   w2_values, i2, seen>>

NextHedge == Main \/ MinVarianceWeights \/ PortfolioVolatility

SpecHedge == InitHedge /\ [][NextHedge]_vars

----------------------------------------------------------------------------
(* Every entry point.                                                      *)
Init == InitValidate \/ InitStats \/ InitUnconstrained \/ InitLongOnly \/ InitHedge

Next == Validate \/ Stats \/ Unconstrained \/ NextLongOnly \/ NextHedge

Spec == Init /\ [][Next]_vars

----------------------------------------------------------------------------
(* Properties.                                                             *)
Valid == validate_inputs(mu, cov).status = "ok"

(* a >= b on floats.                                                       *)
FloatGE(a, b) ==
    IF a.k = "nan" \/ b.k = "nan" THEN FALSE
    ELSE IF b.k = "ninf" THEN TRUE
    ELSE IF a.k = "ninf" THEN FALSE
    ELSE RLe(b.ssq, a.ssq)

SetMin(S) == CHOOSE x \in S : \A y \in S : x <= y

(* C1: for every weight vector and every cov that passes validation,       *)
(* portfolio_stats returns a volatility equal to sqrt(max(variance, 0)):   *)
(* a negative variance is clamped to volatility 0, never NaN.              *)
C1_VolatilityClamped ==
    (pc = "done" /\ Valid) =>
        /\ result.status = "ok"
        /\ result.volatility.k # "nan"
        /\ result.volatility = [k |-> "root", sq |-> RMax(Quad(weights, cov), Zero)]

(* C2: validation checks the length of mu, then the shape of cov, then     *)
(* the symmetry of cov, and reports the first check that fails; inputs     *)
(* that pass all three are returned unchanged.                             *)
MuShapeOk == Len(mu.shape) = 1 /\ mu.shape[1] = 3
CovShapeOk == Len(cov.shape) = 2 /\ cov.shape[1] = 3 /\ cov.shape[2] = 3
C2_ValidationOrder ==
    pc = "done" =>
        /\ ~MuShapeOk => result = Raise("mu_shape")
        /\ (MuShapeOk /\ ~CovShapeOk) => result = Raise("cov_shape")
        /\ result = Raise("not_symmetric") <=>
               (MuShapeOk /\ CovShapeOk /\ ~AllCloseT(cov))
        /\ (MuShapeOk /\ CovShapeOk /\ AllCloseT(cov)) =>
               (result.status = "ok" /\ result.mu = mu /\ result.cov = cov)

C2_Witness ==
    /\ pc = "done"
    /\ ~MuShapeOk /\ ~CovShapeOk
    /\ result = Raise("mu_shape")

----------------------------------------------------------------------------
(* The grid search.                                                        *)
InLoop == pc \in {"outer", "inner"}
Returned == pc = "done" /\ result.status = "ok"
Corners == {<<One, Zero, Zero>>, <<Zero, One, Zero>>, <<Zero, Zero, One>>}
Sharpe(k) == seen[k].sharpe_ratio

(* C3: the Sharpe ratio of the returned result is >= the Sharpe ratio      *)
(* portfolio_stats gives each of the three simplex corners.                *)
C3_AtLeastCorners ==
    Returned =>
        \A w \in Corners :
            FloatGE(result.sharpe_ratio, portfolio_stats(w, mu, cov, rf).sharpe_ratio)

(* C4: every candidate evaluated, the best record at every point and the   *)
(* returned weights lie on the simplex: each weight >= 0, the sum 1.       *)
OnSimplex(w) ==
    /\ \A j \in 1..3 : RLe(Zero, w[j]) /\ RLe(w[j], One)
    /\ RAdd(RAdd(w[1], w[2]), w[3]) = One
C4_OnSimplex ==
    /\ \A k \in 1..Len(seen) : OnSimplex(seen[k].weights)
    /\ InLoop => OnSimplex(best.weights)
    /\ Returned => OnSimplex(result.weights)

C4_Witness ==
    /\ Returned
    /\ \A j \in 1..3 : RLt(Zero, result.weights[j]) /\ RLt(result.weights[j], One)

(* Candidates with a finite Sharpe ratio, and those among them that attain *)
(* the maximum.                                                            *)
Finite == {k \in 1..Len(seen) : Sharpe(k).k = "real"}
FiniteMax == {k \in Finite : \A j \in Finite : RLe(Sharpe(j).ssq, Sharpe(k).ssq)}

(* (w1, w2) of candidate a is not after that of candidate b.               *)
LexLe(a, b) == RLt(a[1], b[1]) \/ (a[1] = b[1] /\ RLe(a[2], b[2]))
IterationOrder ==
    \A k \in 1..(Len(seen) - 1) : LexLe(seen[k].weights, seen[k + 1].weights)

(* C5 as stated: at every point the best record is the earliest of the     *)
(* candidates seen so far that attain the maximum Sharpe ratio (here for   *)
(* runs in which no candidate has a NaN Sharpe ratio).                     *)
AttainMax == {k \in 1..Len(seen) : \A j \in 1..Len(seen) : FloatGE(Sharpe(k), Sharpe(j))}
C5_Original ==
    (/\ InLoop \/ Returned
     /\ seen # <<>>
     /\ InitialBest(mu, cov).volatility.k # "nan"
     /\ \A k \in 1..Len(seen) : Sharpe(k).k # "nan") =>
        best = seen[SetMin(AttainMax)]

(* C5 amended: the best record is the initial record while no candidate    *)
(* seen so far has a finite Sharpe ratio, and otherwise the earliest       *)
(* candidate, in iteration order (ascending w1, then w2), among the        *)
(* candidates with a finite Sharpe ratio that attain their maximum.        *)
C5_BestIsEarliestMax ==
    (InLoop \/ Returned) =>
        /\ IterationOrder
        /\ best = IF Finite = {} THEN InitialBest(mu, cov)
                  ELSE seen[SetMin(FiniteMax)]
        /\ Returned => result = best

(* A later candidate ties with the best one and does not displace it.      *)
C5_Witness ==
    /\ Returned
    /\ Cardinality(FiniteMax) > 1
    /\ result = seen[SetMin(FiniteMax)]
    /\ \E k \in FiniteMax : seen[k].weights # result.weights

(* C7: the search starts from weights [1,0,0] with the return mu[0], the   *)
(* volatility sqrt(cov[0][0]) and the Sharpe ratio -inf; the first         *)
(* candidate with a finite Sharpe ratio replaces it; when every candidate  *)
(* has the Sharpe ratio -inf the call returns that initial record.         *)
StartRecord ==
    [status |-> "ok", weights |-> <<One, Zero, Zero>>,
     expected_return |-> mu.data[1],
     volatility |-> IF RLt(cov.data[1], Zero) THEN NaN
                    ELSE [k |-> "root", sq |-> cov.data[1]],
     sharpe_ratio |-> NegInf]
AllNegInf == \A k \in 1..Len(seen) : Sharpe(k).k = "ninf"
C7_InitialFallback ==
    /\ (InLoop /\ seen = <<>>) => best = StartRecord
    /\ (InLoop /\ Finite # {} /\ Len(seen) = SetMin(Finite)) =>
           (best = seen[Len(seen)] /\ best.sharpe_ratio.k = "real")
    /\ (Returned /\ AllNegInf) => result = StartRecord

C7_Witness ==
    /\ Returned
    /\ seen # <<>>
    /\ AllNegInf
    /\ \E k \in 1..Len(seen) : seen[k].weights # <<One, Zero, Zero>>
    /\ result = StartRecord

(* C10: for the i-th w1 value i/(R-1) the w2 sub-grid has max(2, R-i)      *)
(* points evenly spaced over [0, 1-w1]; for i < R-1 its spacing is         *)
(* 1/(R-1); the candidates evaluated are exactly the lattice points        *)
(* (i, j, R-1-i-j)/(R-1), and the corner [1,0,0] is evaluated twice.       *)
Lattice(n) ==
    {<<Norm(p[1], n - 1), Norm(p[2], n - 1), Norm(n - 1 - p[1] - p[2], n - 1)>> :
        p \in {q \in (0..(n - 1)) \X (0..(n - 1)) : q[1] + q[2] <= n - 1}}
C10_SubGrid ==
    /\ pc = "inner" =>
         LET i == i1 - 1
             w1 == Norm(i, grid_size - 1)
             n == Len(w2_values)
         IN  /\ grid[i1] = w1
             /\ n = Max(2, grid_size - i)
             /\ \A j \in 1..n :
                    RMul(w2_values[j], R(n - 1)) = RMul(R(j - 1), RSub(One, w1))
             /\ i < grid_size - 1 =>
                    \A j \in 1..(n - 1) :
                        RSub(w2_values[j + 1], w2_values[j]) = Norm(1, grid_size - 1)
    /\ Returned =>
         /\ {seen[k].weights : k \in 1..Len(seen)} = Lattice(grid_size)
         /\ Len(seen) = Cardinality(Lattice(grid_size)) + 1
         /\ seen[Len(seen)].weights = <<One, Zero, Zero>>
         /\ seen[Len(seen) - 1].weights = <<One, Zero, Zero>>

C10_Witness ==
    /\ Returned
    /\ grid_size > 3
    /\ Len(seen) = Cardinality(Lattice(grid_size)) + 1

----------------------------------------------------------------------------
(* The analytical solver.                                                  *)
Excess == [j \in 1..3 |-> RSub(mu.data[j], rf)]
Singular == Det3(cov.data) = Zero
Sum3(w) == RAdd(RAdd(w[1], w[2]), w[3])

(* raw solves cov . raw = mu - rf.                                         *)
Solves(raw) ==
    \A r \in 1..3 :
        RAdd(RAdd(RMul(At(cov, r, 1), raw[1]), RMul(At(cov, r, 2), raw[2])),
             RMul(At(cov, r, 3), raw[3])) = Excess[r]

C6_WitnessSingular == pc = "done" /\ Valid /\ result = Raise("singular")
C6_Witness ==
    /\ pc = "done" /\ Valid /\ result.status = "ok"
    /\ \E j \in 1..3 : RLt(result.weights[j], Zero)

----------------------------------------------------------------------------
(* The two-currency basket.                                                *)
Sq(x) == RMul(x, x)
HedgeSingular == Det2(Cov2(fx.vol_eurusd, fx.vol_usdjpy, fx.corr)) = Zero
HasWeights ==
    \/ pc = "portfolio_volatility"
    \/ pc = "done" /\ result.status = "ok"
    \/ pc = "done" /\ result.status = "printed" /\ result.msg = "weights"

(* C8: for a non-singular covariance the weights are                       *)
(* w_a = (vol_b^2 + corr*vol_a*vol_b) / (vol_a^2 + vol_b^2 +               *)
(* 2*corr*vol_a*vol_b) and w_b = 1 - w_a; equal volatilities with          *)
(* corr = 0 give 0.5 and 0.5 and the portfolio variance vol_a^2 / 2.       *)
C8_ClosedForm ==
    HasWeights =>
        LET a == fx.vol_eurusd
            b == fx.vol_usdjpy
            cab == RMul(fx.corr, RMul(a, b))
            den == RAdd(RAdd(Sq(a), Sq(b)), RMul(R(2), cab))
        IN  /\ ~HedgeSingular
            /\ den # Zero
            /\ result.weight_eur = Fin(RDiv(RAdd(Sq(b), cab), den))
            /\ result.weight_jpy = Fin(RSub(One, result.weight_eur.v))
            /\ (a = b /\ fx.corr = Zero) =>
                   /\ result.weight_eur = Fin(<<1, 2>>)
                   /\ result.weight_jpy = Fin(<<1, 2>>)
                   /\ pc = "done" =>
                          result.port_vol = [k |-> "root", sq |-> RDiv(Sq(a), R(2))]

C8_Witness ==
    /\ pc = "done" /\ result.status = "ok"
    /\ fx.vol_eurusd = fx.vol_usdjpy /\ fx.corr = Zero
    /\ result.weight_eur = Fin(<<1, 2>>)
    /\ result.port_vol = [k |-> "root", sq |-> RDiv(Sq(fx.vol_eurusd), R(2))]

====
